---- MODULE Spec2Model ----
(***************************************************************************)
(* Model of src/utils/transformer_utils.py: the Transformer learning-rate  *)
(* schedule (CustomSchedule), the mask builders (create_padding_mask,      *)
(* create_look_ahead_mask, create_masks), the greedy decode loop           *)
(* (evaluate) and translate.                                               *)
(*                                                                         *)
(* Tensors are modelled with the batch dimension of 1 dropped and with     *)
(* 0-based indices as in the source: a vector of length n is a function    *)
(* on 0..n-1, a matrix a function of rows.  Token sequences (python lists, *)
(* rank-1 int tensors) are TLA+ sequences.                                 *)
(*                                                                         *)
(* The model and the tokenizers are collaborators outside the file: the    *)
(* tokenizer's encode is an arbitrary sequence of sub-word ids, the        *)
(* model's answer at each step is an arbitrary arg-max id.                 *)
(***************************************************************************)
EXTENDS Integers, Sequences, FiniteSets, TLC

\* ---- bounds of the model -------------------------------------------------
\* tokenizer_source.vocab_size and tokenizer_target.vocab_size
SrcVocabSize == 3
TgtVocabSize == 2
\* longest encoded source sentence
MaxSrcLen == 2
\* largest max_length_pred handed to evaluate (the smallest is MinLength)
MaxLength == 4
\* longest sequence handed to the mask builders
MaxSeqLen == 3
\* largest token id handed to the mask builders
MaxTokenId == 2
\* largest d_model and warmup_steps of a CustomSchedule
MaxDModel == 2
MaxWarmup == 4

\* smallest max_length_pred tried (non-positive values included)
MinLength == 0 - 1
\* the step range of the schedule is 1..StepFactor * warmup_steps
StepFactor == 10

VARIABLES
    mode,               \* which entry point of the file is exercised
    \* evaluate / translate
    pc,                 \* position in the entry point
    sentence_ids,       \* tokenizer_source.encode(inp_sentence)
    max_length_pred,
    encoder_input,
    output,             \* the decoder input accumulated so far
    i,                  \* loop variable of `for i in range(max_length_pred)`
    attention_weights,  \* 0: the local is unbound; k: bound by invocation k
    calls,              \* log of the transformer invocations, with the answer
    result,             \* sequence returned by evaluate (<<>>: nothing returned)
    decode_arg,         \* argument of tokenizer_target.decode in translate
    plotted,            \* plot_attention_weights was called
    \* mask builders
    inp, tar,           \* arguments of create_masks
    enc_padding_mask, combined_mask, dec_padding_mask,
    size, look_ahead_mask,
    \* CustomSchedule
    d_model, warmup_steps, step, lr

evalVars  == <<sentence_ids, max_length_pred, encoder_input, output, i,
               attention_weights, calls, result, decode_arg, plotted>>
maskVars  == <<inp, tar, enc_padding_mask, combined_mask, dec_padding_mask,
               size, look_ahead_mask>>
schedVars == <<d_model, warmup_steps, step, lr>>
vars      == <<mode, pc, evalVars, maskVars, schedVars>>

\* ---- tensor helpers ------------------------------------------------------
Max2(a, b) == IF a >= b THEN a ELSE b

\* a python list / rank-1 tensor as a 0-based vector
Vec(seq) == [k \in 0..(Len(seq) - 1) |-> seq[k + 1]]

\* tf.ones((n, n))
ones(n) == [m \in 0..(n - 1) |-> [k \in 0..(n - 1) |-> 1]]

\* tf.linalg.band_part(input, num_lower, num_upper) on an n x n matrix:
\* band[m][k] = in_band(m, k) * input[m][k], a negative bound keeps the
\* whole triangle.
band_part(input, n, num_lower, num_upper) ==
    [m \in 0..(n - 1) |-> [k \in 0..(n - 1) |->
        IF /\ (num_lower < 0 \/ (m - k) <= num_lower)
           /\ (num_upper < 0 \/ (k - m) <= num_upper)
        THEN input[m][k] ELSE 0]]

\* ---- mask builders -------------------------------------------------------
\* the pad id compared against in create_padding_mask
PadId == 0

\* tf.cast(tf.math.equal(seq, 0), tf.float32)[:, newaxis, newaxis, :]
\* shape (1, 1, 1, seq_len): one row, broadcast over heads and queries
create_padding_mask(seq) ==
    [k \in 0..(Len(seq) - 1) |-> IF Vec(seq)[k] = PadId THEN 1 ELSE 0]

\* variant of create_look_ahead_mask: the band bounds are swapped
LookAheadSwapped(n) ==
    LET band == band_part(ones(n), n, 0, 0 - 1)
    IN  [m \in 0..(n - 1) |-> [k \in 0..(n - 1) |-> 1 - band[m][k]]]

\* 1 - tf.linalg.band_part(tf.ones((size, size)), -1, 0)
create_look_ahead_mask(n) ==
    LET band == band_part(ones(n), n, 0 - 1, 0)
    IN  [m \in 0..(n - 1) |-> [k \in 0..(n - 1) |-> 1 - band[m][k]]]

\* tf.maximum of a (1, 1, 1, n) mask and an (n, n) mask, broadcast to
\* (1, 1, n, n)
maximum(row, mat, n) ==
    [m \in 0..(n - 1) |-> [k \in 0..(n - 1) |-> Max2(row[k], mat[m][k])]]

\* variant of create_masks: the combined mask is the look-ahead mask alone
CreateMasksNoTargetPadding(inp_, tar_) ==
    <<create_padding_mask(inp_), create_look_ahead_mask(Len(tar_)),
      create_padding_mask(inp_)>>

\* create_masks(inp, tar): <<enc_padding_mask, combined_mask, dec_padding_mask>>
create_masks(inp_, tar_) ==
    LET enc_mask  == create_padding_mask(inp_)
        dec_mask  == create_padding_mask(inp_)
        la_mask   == create_look_ahead_mask(Len(tar_))
        dec_target_padding_mask == create_padding_mask(tar_)
        combined  == maximum(dec_target_padding_mask, la_mask, Len(tar_))
    IN  <<enc_mask, combined, dec_mask>>

\* ---- evaluate ------------------------------------------------------------
\* sequences over S of length lo..hi
SeqsOf(S, lo, hi) == UNION {[1..n -> S] : n \in lo..hi}

\* ids a SubwordTextEncoder produces: 1..vocab_size-1 (0 is the pad id)
SourceIds == 1..(SrcVocabSize - 1)
\* ids the arg-max over the model's last-position logits can select
PredictedIds == 0..(TgtVocabSize + 1)

\* variant of range_has_next: the range runs one iteration too many
RangeInclusive(done, n) == done <= n

\* variant of range_has_next: the range stops one iteration early
RangeShort(done, n) == done < n - 1

\* `for i in range(n)`: another iteration follows those already run
range_has_next(done, n) == done < n

\* lines 92-101: sentinels around the encoded sentence, decoder start token
Setup ==
    /\ mode = "evaluate" /\ pc = "start"
    /\ encoder_input' = <<SrcVocabSize>> \o sentence_ids \o <<SrcVocabSize + 1>>
    /\ output' = <<TgtVocabSize>>
    /\ pc' = "loop"
    /\ UNCHANGED <<sentence_ids, max_length_pred, i, attention_weights, calls,
                   result, decode_arg, plotted>>
    /\ UNCHANGED <<mode, maskVars, schedVars>>

\* the record of one transformer(...) invocation and the id selected from it
Invocation(predicted_id) ==
    LET masks == create_masks(encoder_input, output)
    IN  [encoder_input    |-> encoder_input,
         output           |-> output,
         training         |-> FALSE,
         enc_padding_mask |-> masks[1],
         combined_mask    |-> masks[2],
         dec_padding_mask |-> masks[3],
         predicted_id     |-> predicted_id]

\* variant of StepReturn: the end token is concatenated before returning
StepReturnAppendsEnd ==
    /\ mode = "evaluate" /\ pc = "loop"
    /\ i < max_length_pred
    /\ \E predicted_id \in PredictedIds :
        /\ predicted_id = TgtVocabSize + 1
        /\ calls' = Append(calls, Invocation(predicted_id))
        /\ attention_weights' = Len(calls) + 1
        /\ result' = Append(output, predicted_id)
        /\ pc' = "returned"
    /\ UNCHANGED <<sentence_ids, max_length_pred, encoder_input, output, i,
                   decode_arg, plotted>>
    /\ UNCHANGED <<mode, maskVars, schedVars>>

\* lines 103-121: an iteration whose selected id is the end token returns
StepReturn ==
    /\ mode = "evaluate" /\ pc = "loop"
    /\ range_has_next(i, max_length_pred)
    /\ \E predicted_id \in PredictedIds :
        /\ predicted_id = TgtVocabSize + 1
        /\ calls' = Append(calls, Invocation(predicted_id))
        /\ attention_weights' = Len(calls) + 1
        /\ result' = output
        /\ pc' = "returned"
    /\ UNCHANGED <<sentence_ids, max_length_pred, encoder_input, output, i,
                   decode_arg, plotted>>
    /\ UNCHANGED <<mode, maskVars, schedVars>>

\* variant of StepAppend: the selected id is concatenated in front
StepPrepend ==
    /\ mode = "evaluate" /\ pc = "loop"
    /\ i < max_length_pred
    /\ \E predicted_id \in PredictedIds :
        /\ predicted_id # TgtVocabSize + 1
        /\ calls' = Append(calls, Invocation(predicted_id))
        /\ attention_weights' = Len(calls) + 1
        /\ output' = <<predicted_id>> \o output
        /\ i' = i + 1
    /\ UNCHANGED <<pc, sentence_ids, max_length_pred, encoder_input, result,
                   decode_arg, plotted>>
    /\ UNCHANGED <<mode, maskVars, schedVars>>

\* lines 103-124: an iteration whose selected id is appended to output
StepAppend ==
    /\ mode = "evaluate" /\ pc = "loop"
    /\ range_has_next(i, max_length_pred)
    /\ \E predicted_id \in PredictedIds :
        /\ predicted_id # TgtVocabSize + 1
        /\ calls' = Append(calls, Invocation(predicted_id))
        /\ attention_weights' = Len(calls) + 1
        /\ output' = Append(output, predicted_id)
        /\ i' = i + 1
    /\ UNCHANGED <<pc, sentence_ids, max_length_pred, encoder_input, result,
                   decode_arg, plotted>>
    /\ UNCHANGED <<mode, maskVars, schedVars>>

\* variant of LoopExit: attention_weights is bound before the loop, so the
\* exit always returns
LoopExitBound ==
    /\ mode = "evaluate" /\ pc = "loop"
    /\ ~(i < max_length_pred)
    /\ pc' = "returned" /\ result' = output
    /\ UNCHANGED <<sentence_ids, max_length_pred, encoder_input, output, i,
                   attention_weights, calls, decode_arg, plotted>>
    /\ UNCHANGED <<mode, maskVars, schedVars>>

\* line 126: the range is exhausted; reading attention_weights raises
\* UnboundLocalError when no iteration has bound it
LoopExit ==
    /\ mode = "evaluate" /\ pc = "loop"
    /\ ~range_has_next(i, max_length_pred)
    /\ IF attention_weights = 0
       THEN pc' = "error" /\ UNCHANGED result
       ELSE pc' = "returned" /\ result' = output
    /\ UNCHANGED <<sentence_ids, max_length_pred, encoder_input, output, i,
                   attention_weights, calls, decode_arg, plotted>>
    /\ UNCHANGED <<mode, maskVars, schedVars>>

\* ---- translate -----------------------------------------------------------
\* variant of below_vocab: the comparison is i <= vocab_size
BelowOrAtVocab(ids, vocab_size) ==
    LET F[k \in 0..Len(ids)] ==
            IF k = 0 THEN <<>>
            ELSE IF ids[k] <= vocab_size THEN Append(F[k - 1], ids[k])
                 ELSE F[k - 1]
    IN  F[Len(ids)]

\* [i for i in result if i < vocab_size]
below_vocab(ids, vocab_size) ==
    LET F[k \in 0..Len(ids)] ==
            IF k = 0 THEN <<>>
            ELSE IF ids[k] < vocab_size THEN Append(F[k - 1], ids[k])
                 ELSE F[k - 1]
    IN  F[Len(ids)]

\* lines 185-190: filter the ids, decode them, plot when a layer is named
Translate ==
    /\ mode = "evaluate" /\ pc = "returned"
    /\ decode_arg' = below_vocab(result, TgtVocabSize)
    /\ \E plot \in {"", "decoder_layer4_block2"} : plotted' = (plot # "")
    /\ pc' = "translated"
    /\ UNCHANGED <<sentence_ids, max_length_pred, encoder_input, output, i,
                   attention_weights, calls, result>>
    /\ UNCHANGED <<mode, maskVars, schedVars>>

\* ---- the mask builders called on their own -------------------------------
TokenIds == 0..MaxTokenId

CallCreateMasks ==
    /\ mode = "masks" /\ pc = "args"
    /\ enc_padding_mask' = create_masks(inp, tar)[1]
    /\ combined_mask' = create_masks(inp, tar)[2]
    /\ dec_padding_mask' = create_masks(inp, tar)[3]
    /\ pc' = "masks"
    /\ UNCHANGED <<mode, inp, tar, size, look_ahead_mask, evalVars, schedVars>>

CallCreateLookAheadMask ==
    /\ mode = "masks" /\ pc = "masks"
    /\ \E n \in 1..MaxSeqLen :
        /\ size' = n
        /\ look_ahead_mask' = create_look_ahead_mask(n)
    /\ pc' = "done"
    /\ UNCHANGED <<mode, inp, tar, enc_padding_mask, combined_mask,
                   dec_padding_mask, evalVars, schedVars>>

\* ---- CustomSchedule ------------------------------------------------------
\* The schedule's values are positive reals.  A value v is carried as the
\* exact fraction num/den of its square v^2, so that rsqrt and the power
\* -1.5 stay in the integers and the order of the values is kept:
\*   rsqrt(step)^2 = 1/step,  (step * warmup_steps^-1.5)^2 = step^2/warmup_steps^3.
Frac(num, den) == [num |-> num, den |-> den]

\* a <= b for the values whose squares are a and b
Leq(a, b) == a.num * b.den <= b.num * a.den

\* tf.math.rsqrt(x)
rsqrt(x) == Frac(1, x)

\* tf.math.minimum(a, b)
minimum(a, b) == IF Leq(a, b) THEN a ELSE b

\* the product of two values
Times(a, b) == Frac(a.num * b.num, a.den * b.den)

\* variant of call: the larger of the two arguments is taken
CallMaximum(d, w, step_) ==
    LET arg1 == rsqrt(step_)
        arg2 == Frac(step_ * step_, w * w * w)
    IN  Times(rsqrt(d), IF Leq(arg1, arg2) THEN arg2 ELSE arg1)

\* CustomSchedule.__call__(step) of a schedule built with (d, w)
call(d, w, step_) ==
    LET arg1 == rsqrt(step_)
        arg2 == Frac(step_ * step_, w * w * w)
    IN  Times(rsqrt(d), minimum(arg1, arg2))

\* one optimizer update: the step counter advances and the schedule is read
OptimizerStep ==
    /\ mode = "schedule"
    /\ step < StepFactor * warmup_steps
    /\ step' = step + 1
    /\ lr' = call(d_model, warmup_steps, step + 1)
    /\ UNCHANGED <<mode, pc, d_model, warmup_steps, evalVars, maskVars>>

\* ---- specifications ------------------------------------------------------
EmptyVec == Vec(<<>>)

EvalIdle ==
    /\ sentence_ids = <<>> /\ max_length_pred = 0 /\ encoder_input = <<>>
    /\ output = <<>> /\ i = 0 /\ attention_weights = 0 /\ calls = <<>>
    /\ result = <<>> /\ decode_arg = <<>> /\ plotted = FALSE

MaskIdle ==
    /\ inp = <<>> /\ tar = <<>>
    /\ enc_padding_mask = EmptyVec /\ combined_mask = EmptyVec
    /\ dec_padding_mask = EmptyVec /\ size = 0 /\ look_ahead_mask = EmptyVec

SchedIdle ==
    /\ d_model = 1 /\ warmup_steps = 1 /\ step = 0 /\ lr = Frac(0, 1)

\* translate / evaluate on any sentence, with any max_length_pred
Init ==
    /\ mode = "evaluate" /\ pc = "start"
    /\ sentence_ids \in SeqsOf(SourceIds, 0, MaxSrcLen)
    /\ max_length_pred \in MinLength..MaxLength
    /\ encoder_input = <<>> /\ output = <<>> /\ i = 0
    /\ attention_weights = 0 /\ calls = <<>>
    /\ result = <<>> /\ decode_arg = <<>> /\ plotted = FALSE
    /\ MaskIdle /\ SchedIdle

Next == Setup \/ StepReturn \/ StepAppend \/ LoopExit \/ Translate

Spec == Init /\ [][Next]_vars

\* the decode loop keeps running until it returns or raises
FairSpec == Spec /\ WF_vars(Next)

\* the mask builders on any pair of sequences
InitMasks ==
    /\ mode = "masks" /\ pc = "args"
    /\ inp \in SeqsOf(TokenIds, 1, MaxSeqLen)
    /\ tar \in SeqsOf(TokenIds, 1, MaxSeqLen)
    /\ enc_padding_mask = EmptyVec /\ combined_mask = EmptyVec
    /\ dec_padding_mask = EmptyVec /\ size = 0 /\ look_ahead_mask = EmptyVec
    /\ EvalIdle /\ SchedIdle

NextMasks == CallCreateMasks \/ CallCreateLookAheadMask

SpecMasks == InitMasks /\ [][NextMasks]_vars

\* a schedule of any d_model and warmup_steps, read at steps 1, 2, ...
InitSchedule ==
    /\ mode = "schedule" /\ pc = "train"
    /\ d_model \in 1..MaxDModel
    /\ warmup_steps \in 1..MaxWarmup
    /\ step = 0 /\ lr = Frac(0, 1)
    /\ EvalIdle /\ MaskIdle

NextSchedule == OptimizerStep

SpecSchedule == InitSchedule /\ [][NextSchedule]_vars

\* ---- properties ----------------------------------------------------------
EndToken == TgtVocabSize + 1
Returned == mode = "evaluate" /\ pc \in {"returned", "translated"}
NoEndSelected == \A k \in 1..Len(calls) : calls[k].predicted_id # EndToken

\* the bounds of C1, as a predicate of one state
C1_Bounded ==
    (mode = "evaluate" /\ max_length_pred >= 1) =>
        /\ Len(calls) <= max_length_pred
        /\ i <= max_length_pred
        /\ pc # "error"
        /\ Returned => (Len(result) >= 1 /\ Len(result) <= max_length_pred + 1)

\* C1: with max_length_pred >= 1 the decode loop invokes the model at most
\* max_length_pred times, whatever ids the model selects, and then returns;
\* the returned sequence has between 1 and max_length_pred + 1 tokens.
C1_TerminatesWithinBound ==
    /\ []C1_Bounded
    /\ (mode = "evaluate" /\ max_length_pred >= 1) ~> Returned
C1_Witness ==
    /\ Returned /\ max_length_pred = MaxLength
    /\ Len(calls) = max_length_pred /\ Len(result) = max_length_pred + 1

\* C2: the invocation at which the end token is selected is the last one;
\* evaluate then returns the decoder sequence that invocation was given, so
\* the result never holds the end token, and an end token selected at the
\* first invocation gives the result <<target start token>>.
C2_EndTokenStops ==
    /\ \A k \in 1..Len(calls) :
          calls[k].predicted_id = EndToken =>
              /\ k = Len(calls)
              /\ Returned
              /\ result = calls[k].output
    /\ Returned => \A j \in 1..Len(result) : result[j] # EndToken
    /\ (Len(calls) >= 1 /\ calls[1].predicted_id = EndToken) =>
          (result = <<TgtVocabSize>> /\ Len(calls) = 1 /\ i = 0)
C2_Witness ==
    /\ pc = "returned" /\ Len(calls) = 2
    /\ calls[2].predicted_id = EndToken /\ Len(result) = 2

\* C3: when no invocation selects the end token and max_length_pred >= 1,
\* evaluate returns without error the start token followed by the
\* max_length_pred selected ids, in the order they were selected.
C3_Truncation ==
    (Returned /\ max_length_pred >= 1 /\ NoEndSelected) =>
        /\ Len(calls) = max_length_pred
        /\ Len(result) = max_length_pred + 1
        /\ result[1] = TgtVocabSize
        /\ \A k \in 1..max_length_pred : result[k + 1] = calls[k].predicted_id
C3_Witness ==
    /\ pc = "returned" /\ max_length_pred = MaxLength /\ NoEndSelected
    /\ Len(result) = MaxLength + 1

\* C4: with max_length_pred <= 0 evaluate invokes nothing and returns
\* nothing: it ends in an error, with no token sequence, no attention weights
\* and nothing decoded.
C4_NonPositiveLengthRaises ==
    (mode = "evaluate" /\ max_length_pred <= 0) =>
        /\ pc \in {"start", "loop", "error"}
        /\ pc = "loop" => ENABLED LoopExit
        /\ calls = <<>> /\ attention_weights = 0
        /\ result = <<>> /\ decode_arg = <<>>
C4_Witness == mode = "evaluate" /\ max_length_pred <= 0 /\ pc = "error"

\* C5: a sentence that encodes to no ids is rejected: the model is never
\* invoked for it and nothing is returned.
C5_EmptySentenceRejected ==
    (mode = "evaluate" /\ sentence_ids = <<>>) =>
        /\ calls = <<>>
        /\ ~Returned

\* positions of result, up to n, whose id is below the target vocab_size
KeptUpTo(n) == {j \in 1..n : result[j] < TgtVocabSize}

\* C6: the ids translate hands to decode are the ids of evaluate's result
\* that are below the target vocab_size, each kept id at the place given by
\* the number of kept ids up to it; no id at or above vocab_size is passed.
C6_DecodeGetsIdsBelowVocab ==
    /\ below_vocab(<<10, 5, 7, 11>>, 10) = <<5, 7>>
    /\ (mode = "evaluate" /\ pc = "translated") =>
        /\ Len(decode_arg) = Cardinality(KeptUpTo(Len(result)))
        /\ \A j \in KeptUpTo(Len(result)) :
              decode_arg[Cardinality(KeptUpTo(j))] = result[j]
        /\ \A k \in 1..Len(decode_arg) : decode_arg[k] < TgtVocabSize
C6_Witness ==
    /\ mode = "evaluate" /\ pc = "translated"
    /\ Len(result) = 4 /\ Len(decode_arg) = 2
    /\ result[3] = TgtVocabSize /\ result[2] # result[4]

\* C7: the combined mask of create_masks is an n x n matrix, n the length
\* of tar, with combined[m][k] = 1 exactly when tar[k] is the pad id or
\* k > m, and 0 otherwise.
C7_CombinedMask ==
    (mode = "masks" /\ pc \in {"masks", "done"}) =>
        LET n == Len(tar) IN
        /\ DOMAIN combined_mask = 0..(n - 1)
        /\ \A m \in 0..(n - 1) :
            /\ DOMAIN combined_mask[m] = 0..(n - 1)
            /\ \A k \in 0..(n - 1) :
                  combined_mask[m][k] =
                      IF tar[k + 1] = 0 \/ k > m THEN 1 ELSE 0
C7_Witness ==
    /\ mode = "masks" /\ pc = "masks" /\ Len(tar) = MaxSeqLen
    /\ tar[1] = 0 /\ tar[2] # 0
    /\ combined_mask[1][0] = 1 /\ combined_mask[1][1] = 0

\* C8: create_look_ahead_mask(n) is an n x n matrix of 0s and 1s whose
\* entry [m][k] is 1 exactly when k > m.
C8_LookAheadMask ==
    (mode = "masks" /\ pc = "done") =>
        /\ size >= 1
        /\ DOMAIN look_ahead_mask = 0..(size - 1)
        /\ \A m \in 0..(size - 1) :
            /\ DOMAIN look_ahead_mask[m] = 0..(size - 1)
            /\ \A k \in 0..(size - 1) :
                /\ look_ahead_mask[m][k] \in {0, 1}
                /\ look_ahead_mask[m][k] = 1 <=> k > m
C8_Witness ==
    /\ mode = "masks" /\ pc = "done" /\ size = MaxSeqLen
    /\ look_ahead_mask[0][size - 1] = 1 /\ look_ahead_mask[size - 1][0] = 0

\* C9: at every step of 1..StepFactor * warmup_steps the schedule's value
\* is at most its value at step = warmup_steps.
C9_PeakAtWarmup ==
    (mode = "schedule" /\ step >= 1) =>
        /\ step <= StepFactor * warmup_steps
        /\ Leq(lr, call(d_model, warmup_steps, warmup_steps))
C9_Witness ==
    /\ mode = "schedule" /\ warmup_steps = MaxWarmup
    /\ step = StepFactor * warmup_steps
    /\ ~Leq(call(d_model, warmup_steps, warmup_steps), lr)

\* C10: the k-th invocation is given a decoder sequence of length k that
\* starts with the target start token and extends the sequence of the
\* invocation before it, and the encoder input of every invocation is the
\* encoded sentence between the two source sentinels.
C10_AppendOnly ==
    /\ Len(calls) <= Max2(max_length_pred, 0)
    /\ \A k \in 1..Len(calls) :
        /\ Len(calls[k].output) = k
        /\ calls[k].output[1] = TgtVocabSize
        /\ k > 1 => SubSeq(calls[k].output, 1, k - 1) = calls[k - 1].output
        /\ calls[k].encoder_input =
              <<SrcVocabSize>> \o sentence_ids \o <<SrcVocabSize + 1>>
C10_Witness ==
    /\ mode = "evaluate" /\ Len(calls) = MaxLength
    /\ Len(sentence_ids) = MaxSrcLen
    /\ calls[MaxLength].output[2] # calls[MaxLength].output[MaxLength]

====
